---- MODULE Spec2Model ----
(***************************************************************************)
(* redacta: the sanitize / placeholder / restore engine.                   *)
(*                                                                         *)
(* Strings are sequences of one-character strings.  Offsets of entity      *)
(* spans are 0-based and half-open, as in the Python source; SubSeq is     *)
(* 1-based, so text[a:b] is SubSeq(text, a + 1, b).                        *)
(*                                                                         *)
(* Seven specifications share the module:                                  *)
(*   SpecCodec   replace_with_placeholders / restore_from_placeholders     *)
(*   SpecDetect  SpaCyPIIDetector._remove_overlapping / detect             *)
(*   SpecRestore restore_from_placeholders on texts a model can send back  *)
(*   SpecStream  restore_streaming_response (SpecStreamLive: run to its end)*)
(*   Spec        Pipeline and MappingStore, the spaCy model installed      *)
(*   SpecApp     the decorators, the settings and the model's availability *)
(* The variables a specification does not use are held at idle values.     *)
(***************************************************************************)
EXTENDS Integers, Sequences, FiniteSets, TLC

VARIABLES
    cText, cEntities, cOut, cRestored,
    dCandidates, dResult,
    sFull, sMapping, sPos, sCuts, sEmpties, ins, buffer, outs, sDone,
    store, last, base, clearedSince,
    enable_pii_protection, settings_cache, verbose, model_installed,
    rText, rMapping, rOut

codecVars  == <<cText, cEntities, cOut, cRestored>>
detectVars == <<dCandidates, dResult>>
streamVars == <<sFull, sMapping, sPos, sCuts, sEmpties, ins, buffer, outs, sDone>>
pipeVars   == <<store, last, base, clearedSince>>
appVars    == <<enable_pii_protection, settings_cache, verbose, model_installed>>
restoreVars == <<rText, rMapping, rOut>>
vars       == <<codecVars, detectVars, streamVars, pipeVars, appVars, restoreVars>>

(***************************************************************************)
(* Strings                                                                 *)
(***************************************************************************)
None == "None"

EmptyMap == [k \in {} |-> <<>>]

Min(a, b) == IF a < b THEN a ELSE b
Max(a, b) == IF a > b THEN a ELSE b

\* Python slice s[a:b] for 0 <= a, 0 <= b (out-of-range bounds are clamped)
Slice(s, a, b) == SubSeq(s, Min(a, Len(s)) + 1, Min(b, Len(s)))

\* Python slice s[a:]
SliceFrom(s, a) == SubSeq(s, Min(a, Len(s)) + 1, Len(s))

\* all strings over alphabet of length 0..n
StringsUpTo(alphabet, n) == UNION {[1..k -> alphabet] : k \in 0..n}

\* s contains the character c
HasChar(s, c) == \E i \in DOMAIN s : s[i] = c

RECURSIVE Concat(_)
Concat(ss) == IF ss = <<>> THEN <<>> ELSE Head(ss) \o Concat(Tail(ss))

DigitChars == <<"0", "1", "2", "3", "4", "5", "6", "7", "8", "9">>

\* str(n) for n >= 0, as the f-string formats the counter
RECURSIVE IntToStr(_)
IntToStr(n) ==
    IF n < 10 THEN <<DigitChars[n + 1]>>
    ELSE IntToStr(n \div 10) \o <<DigitChars[(n % 10) + 1]>>

\* the character class [A-Z_0-9]
BodyChars ==
    {"A", "B", "C", "D", "E", "F", "G", "H", "I", "J", "K", "L", "M",
     "N", "O", "P", "Q", "R", "S", "T", "U", "V", "W", "X", "Y", "Z",
     "0", "1", "2", "3", "4", "5", "6", "7", "8", "9", "_"}

\* length of the longest run of [A-Z_0-9] in s starting at 1-based index i
RECURSIVE BodyRun(_, _)
BodyRun(s, i) ==
    IF i <= Len(s) /\ s[i] \in BodyChars THEN 1 + BodyRun(s, i + 1) ELSE 0

IsAtAt(s, i) == i + 1 <= Len(s) /\ s[i] = "@" /\ s[i + 1] = "@"

\* re.compile(r"@@[A-Z_0-9]+@@") tried at 1-based index i: the 1-based index
\* just past the match, or 0 when there is no match at i.  The body is
\* greedy; a shorter body never helps because the next character would be a
\* body character, not "@".
PlaceholderMatchEnd(s, i) ==
    IF ~IsAtAt(s, i) THEN 0
    ELSE LET n == BodyRun(s, i + 2) IN
         IF n >= 1 /\ IsAtAt(s, i + 2 + n) THEN i + 2 + n + 2 ELSE 0

\* placeholder_pattern.fullmatch(s)
PlaceholderFullMatch(s) == PlaceholderMatchEnd(s, 1) = Len(s) + 1

\* placeholder_pattern.finditer(text): the matched tokens, left to right,
\* non-overlapping, scanning from 1-based index i
RECURSIVE FindIter(_, _)
FindIter(text, i) ==
    IF i > Len(text) THEN <<>>
    ELSE LET e == PlaceholderMatchEnd(text, i) IN
         IF e = 0 THEN FindIter(text, i + 1)
         ELSE <<SubSeq(text, i, e - 1)>> \o FindIter(text, e)

\* str.find(old) from 1-based index i: the index of the first occurrence, or 0
RECURSIVE FindFrom(_, _, _)
FindFrom(s, old, i) ==
    IF i + Len(old) - 1 > Len(s) THEN 0
    ELSE IF SubSeq(s, i, i + Len(old) - 1) = old THEN i
    ELSE FindFrom(s, old, i + 1)

\* s.replace(old, new, 1) for a non-empty old
ReplaceFirst(s, old, new) ==
    LET i == FindFrom(s, old, 1) IN
    IF i = 0 THEN s
    ELSE SubSeq(s, 1, i - 1) \o new \o SubSeq(s, i + Len(old), Len(s))

(***************************************************************************)
(* Placeholder codec (core/placeholders.py)                                *)
(***************************************************************************)
EMAIL  == <<"E", "M", "A", "I", "L">>
PHONE  == <<"P", "H", "O", "N", "E">>
PERSON == <<"P", "E", "R", "S", "O", "N">>

\* EntitySpan
EntitySpan(label, start, end, text) ==
    [label |-> label, start |-> start, end |-> end, text |-> text]

\* f"@@{label}_{label_counters[label]}@@"
Placeholder(label, n) == <<"@", "@">> \o label \o <<"_">> \o IntToStr(n) \o <<"@", "@">>

\* insert e into a list sorted by start descending, after the elements whose
\* start is >= e.start (sorted(..., reverse=True) is stable)
RECURSIVE InsertByStartDesc(_, _)
InsertByStartDesc(sorted, e) ==
    IF sorted = <<>> THEN <<e>>
    ELSE IF Head(sorted).start >= e.start
         THEN <<Head(sorted)>> \o InsertByStartDesc(Tail(sorted), e)
         ELSE <<e>> \o sorted

\* a plausible slip: the spans are replaced in the order given
SortSkipped(entities) == entities

\* sorted(entities, key=lambda e: e.start, reverse=True)
RECURSIVE SortByStartDesc(_)
SortByStartDesc(entities) ==
    IF entities = <<>> THEN <<>>
    ELSE InsertByStartDesc(SortByStartDesc(SubSeq(entities, 1, Len(entities) - 1)),
                           entities[Len(entities)])

\* a plausible slip: the counter is created but never advanced
BumpCounterStuck(label_counters, label) ==
    IF label \in DOMAIN label_counters
    THEN label_counters
    ELSE (label :> 1) @@ label_counters

\* label_counters after "if label not in label_counters: ... = 0; ... += 1"
BumpCounter(label_counters, label) ==
    IF label \in DOMAIN label_counters
    THEN [label_counters EXCEPT ![label] = @ + 1]
    ELSE (label :> 1) @@ label_counters

\* the for loop of replace_with_placeholders over entities_sorted
RECURSIVE ReplaceLoop(_, _, _, _)
ReplaceLoop(entities_sorted, label_counters, mapping, result) ==
    IF entities_sorted = <<>> THEN [text |-> result, mapping |-> mapping]
    ELSE LET entity == Head(entities_sorted)
             counters == BumpCounter(label_counters, entity.label)
             placeholder == Placeholder(entity.label, counters[entity.label])
         IN  ReplaceLoop(Tail(entities_sorted), counters,
                         (placeholder :> entity.text) @@ mapping,
                         Slice(result, 0, entity.start) \o placeholder
                             \o SliceFrom(result, entity.end))

\* replace_with_placeholders(text, entities)
replace_with_placeholders(text, entities) ==
    IF entities = <<>> THEN [text |-> text, mapping |-> EmptyMap]
    ELSE ReplaceLoop(SortByStartDesc(entities), EmptyMap, EmptyMap, text)

\* the for loop of restore_from_placeholders over the matches found in text
RECURSIVE RestoreLoop(_, _, _)
RestoreLoop(matches, mapping, result) ==
    IF matches = <<>> THEN result
    ELSE LET placeholder == Head(matches) IN
         RestoreLoop(Tail(matches), mapping,
                     IF placeholder \in DOMAIN mapping
                     THEN ReplaceFirst(result, placeholder, mapping[placeholder])
                     ELSE result)

\* restore_from_placeholders(text, mapping)
restore_from_placeholders(text, mapping) ==
    RestoreLoop(FindIter(text, 1), mapping, text)

(***************************************************************************)
(* SpecCodec: the codec applied to bounded texts and entity lists          *)
(***************************************************************************)
MaxTextLen == 3
MaxEntities == 2

CodecAlphabet == {"a", "b"}
CodecLabels == {EMAIL, PHONE}

\* the spans a detector can report for text: 0 <= start < end <= len(text),
\* text == T[start:end]
SpansOf(text, labels) ==
    UNION {{EntitySpan(l, s, e, Slice(text, s, e)) :
               l \in labels, e \in (s + 1)..Len(text)} :
           s \in 0..(Len(text) - 1)}

Overlap(a, b) == a.start < b.end /\ b.start < a.end

NonOverlapping(entities) ==
    \A i, j \in DOMAIN entities : i < j => ~Overlap(entities[i], entities[j])

\* entity lists of at most n pairwise non-overlapping spans, in any order
EntityLists(text, labels, n) ==
    {es \in UNION {[1..k -> SpansOf(text, labels)] : k \in 0..n} : NonOverlapping(es)}

CodecIdle ==
    /\ cText = <<>>
    /\ cEntities = <<>>
    /\ cOut = <<>>
    /\ cRestored = <<>>

DetectIdle ==
    /\ dCandidates = <<>>
    /\ dResult = <<>>

StreamIdle ==
    /\ sFull = <<>>
    /\ sMapping = EmptyMap
    /\ sPos = 0
    /\ sCuts = {}
    /\ sEmpties = 0
    /\ ins = <<>>
    /\ buffer = <<>>
    /\ outs = <<>>
    /\ sDone = FALSE

PipeIdle ==
    /\ store = EmptyMap
    /\ last = [op |-> "init"]
    /\ base = EmptyMap
    /\ clearedSince = {}

RestoreIdle ==
    /\ rText = <<>>
    /\ rMapping = EmptyMap
    /\ rOut = <<>>

\* the environment as installed: REDACTA_ENABLE_PII_PROTECTION unset (the
\* default of Settings.enable_pii_protection is True), get_settings not yet
\* called, Pipeline.verbose at its default, the spaCy model present
AppIdle ==
    /\ enable_pii_protection = TRUE
    /\ settings_cache = <<>>
    /\ verbose = FALSE
    /\ model_installed = TRUE

InitCodec ==
    /\ cText \in StringsUpTo(CodecAlphabet, MaxTextLen)
    /\ cEntities \in EntityLists(cText, CodecLabels, MaxEntities)
    /\ cOut = <<>>
    /\ cRestored = <<>>
    /\ DetectIdle /\ StreamIdle /\ PipeIdle /\ AppIdle /\ RestoreIdle

\* a caller applies replace_with_placeholders(cText, cEntities)
CodecReplace ==
    /\ cOut = <<>>
    /\ cOut' = <<replace_with_placeholders(cText, cEntities)>>
    /\ UNCHANGED <<cText, cEntities, cRestored, detectVars, streamVars, pipeVars, appVars, restoreVars>>

\* a caller applies restore_from_placeholders to the sanitized text
CodecRestore ==
    /\ cOut # <<>>
    /\ cRestored = <<>>
    /\ cRestored' = <<restore_from_placeholders(cOut[1].text, cOut[1].mapping)>>
    /\ UNCHANGED <<cText, cEntities, cOut, detectVars, streamVars, pipeVars, appVars, restoreVars>>

NextCodec == CodecReplace \/ CodecRestore

SpecCodec == InitCodec /\ [][NextCodec]_vars

(***************************************************************************)
(* SpecRestore: restore_from_placeholders applied to the texts a remote    *)
(* model can send back: placeholders repeated, run together, or unknown    *)
(***************************************************************************)
MaxPieces == 3

TokenA == <<"@", "@", "A", "@", "@">>
TokenB == <<"@", "@", "B", "@", "@">>

\* what a text is put together from: the two tokens, the tail of a token
\* and a character of ordinary text
RestorePieces == {TokenA, TokenB, <<"A", "@", "@">>, <<"x">>}

\* the texts made of at most n pieces
RECURSIVE PieceTexts(_)
PieceTexts(n) ==
    IF n = 0 THEN {<<>>}
    ELSE PieceTexts(n - 1) \cup {t \o p : t \in PieceTexts(n - 1), p \in RestorePieces}

\* the decrypted mappings: empty, one token, both tokens, and one whose
\* first value has the shape of the second key (a value is arbitrary user text)
RestoreMappings ==
    {EmptyMap,
     TokenA :> <<"v">>,
     (TokenA :> <<"v">>) @@ (TokenB :> <<"w">>),
     (TokenA :> TokenB) @@ (TokenB :> <<"w">>)}

InitRestore ==
    /\ rText \in PieceTexts(MaxPieces)
    /\ rMapping \in RestoreMappings
    /\ rOut = <<>>
    /\ CodecIdle /\ DetectIdle /\ StreamIdle /\ PipeIdle /\ AppIdle

\* a caller applies restore_from_placeholders(rText, rMapping)
Restore ==
    /\ rOut = <<>>
    /\ rOut' = <<restore_from_placeholders(rText, rMapping)>>
    /\ UNCHANGED <<rText, rMapping, codecVars, detectVars, streamVars, pipeVars, appVars>>

NextRestore == Restore

SpecRestore == InitRestore /\ [][NextRestore]_vars

\* the entities of label l, left to right
RECURSIVE SortByStartAsc(_)
SortByStartAsc(entities) ==
    IF entities = <<>> THEN <<>>
    ELSE LET m == CHOOSE i \in DOMAIN entities :
                      \A j \in DOMAIN entities : entities[i].start <= entities[j].start
         IN  <<entities[m]>> \o
             SortByStartAsc([k \in 1..(Len(entities) - 1) |->
                                IF k < m THEN entities[k] ELSE entities[k + 1]])

\* the number of entities of e's label that start at or before e
RankFromLeft(entities, e) ==
    Cardinality({i \in DOMAIN entities :
        entities[i].label = e.label /\ entities[i].start <= e.start})

\* C6 (multi-entity numbering): within one sanitize call the k-th occurrence
\* of a label from the left is replaced by @@LABEL_k@@, and the mapping
\* associates @@LABEL_k@@ with that occurrence's original text.
C6_LeftToRightNumbering ==
    cOut # <<>> =>
        \A i \in DOMAIN cEntities :
            LET e == cEntities[i]
                p == Placeholder(e.label, RankFromLeft(cEntities, e))
            IN  /\ p \in DOMAIN cOut[1].mapping
                /\ cOut[1].mapping[p] = e.text

\* C7 (placeholder uniqueness within a call): the mapping has exactly one key
\* per entity span (no deduplication of equal values) and every key matches
\* the grammar @@[A-Z_0-9]+@@.
C7_OneKeyPerEntity ==
    cOut # <<>> =>
        /\ Cardinality(DOMAIN cOut[1].mapping) = Len(cEntities)
        /\ \A p \in DOMAIN cOut[1].mapping : PlaceholderFullMatch(p)
        /\ \A i \in DOMAIN cEntities :
              \E p \in DOMAIN cOut[1].mapping : cOut[1].mapping[p] = cEntities[i].text

\* two occurrences of the same value with the same label have been replaced
C7_Witness ==
    /\ cOut # <<>>
    /\ \E i, j \in DOMAIN cEntities :
          /\ i # j
          /\ cEntities[i].label = cEntities[j].label
          /\ cEntities[i].text = cEntities[j].text
    /\ Cardinality(DOMAIN cOut[1].mapping) = 2

(***************************************************************************)
(* Entity detector (core/pii_spacy.py)                                     *)
(***************************************************************************)
SpanLen(e) == e.end - e.start

\* the sort key (e.start, -(e.end - e.start)) of a is <= that of b
OverlapKeyLeq(a, b) ==
    \/ a.start < b.start
    \/ a.start = b.start /\ -SpanLen(a) <= -SpanLen(b)

\* insert e into a list sorted by the overlap key, after its equals (stable)
RECURSIVE InsertByOverlapKey(_, _)
InsertByOverlapKey(sorted, e) ==
    IF sorted = <<>> THEN <<e>>
    ELSE IF OverlapKeyLeq(Head(sorted), e)
         THEN <<Head(sorted)>> \o InsertByOverlapKey(Tail(sorted), e)
         ELSE <<e>> \o sorted

\* sorted(entities, key=lambda e: (e.start, -(e.end - e.start)))
RECURSIVE SortByOverlapKey(_)
SortByOverlapKey(entities) ==
    IF entities = <<>> THEN <<>>
    ELSE InsertByOverlapKey(SortByOverlapKey(SubSeq(entities, 1, Len(entities) - 1)),
                            entities[Len(entities)])

\* the greedy loop of _remove_overlapping
RECURSIVE GreedyAccept(_, _, _)
GreedyAccept(entities, result, last_end) ==
    IF entities = <<>> THEN result
    ELSE LET entity == Head(entities) IN
         IF entity.start >= last_end
         THEN GreedyAccept(Tail(entities), Append(result, entity), entity.end)
         ELSE GreedyAccept(Tail(entities), result, last_end)

\* a plausible slip: overlap resolution is skipped
RemoveOverlappingSkipped(entities) == entities

\* SpaCyPIIDetector._remove_overlapping(entities)
remove_overlapping(entities) ==
    IF entities = <<>> THEN <<>>
    ELSE GreedyAccept(SortByOverlapKey(entities), <<>>, -1)

\* insert e into a list sorted by start ascending, after its equals (stable)
RECURSIVE InsertByStartAsc(_, _)
InsertByStartAsc(sorted, e) ==
    IF sorted = <<>> THEN <<e>>
    ELSE IF Head(sorted).start <= e.start
         THEN <<Head(sorted)>> \o InsertByStartAsc(Tail(sorted), e)
         ELSE <<e>> \o sorted

\* entities.sort(key=lambda e: e.start)
RECURSIVE SortByStart(_)
SortByStart(entities) ==
    IF entities = <<>> THEN <<>>
    ELSE InsertByStartAsc(SortByStart(SubSeq(entities, 1, Len(entities) - 1)),
                          entities[Len(entities)])

\* the tail of SpaCyPIIDetector.detect: the candidates collected from the NER
\* model and the pattern matchers go through _remove_overlapping and a sort
detect(candidates) == SortByStart(remove_overlapping(candidates))

\* the message of the RuntimeError raised by SpaCyPIIDetector.nlp
ModelNotFoundMessage == "spaCy model not found. Install it with: python -m spacy download"

\* SpaCyPIIDetector.nlp: spacy.load raises OSError when the model is not
\* installed, and the property turns it into a RuntimeError.  The model is
\* either installed or not for a whole run, so the cached _nlp is loaded
\* from the first use on exactly when it is installed.
nlp(installed) ==
    IF installed THEN [raised |-> "none", message |-> ""]
    ELSE [raised |-> "RuntimeError", message |-> ModelNotFoundMessage]

\* a plausible slip: a missing model is taken for "no entities found"
DetectorDetectDegraded(installed, entities) ==
    [raised |-> "none", message |-> "", ret |-> IF installed THEN entities ELSE <<>>]

\* SpaCyPIIDetector.detect(text) as its caller sees it: self.nlp(text) is its
\* first statement, so a failed load propagates before any span is
\* collected; otherwise it returns entities, the spans detect resolved
DetectorDetect(installed, entities) ==
    LET loaded == nlp(installed) IN
    IF loaded.raised # "none"
    THEN [raised |-> loaded.raised, message |-> loaded.message, ret |-> <<>>]
    ELSE [raised |-> "none", message |-> "", ret |-> entities]

(***************************************************************************)
(* SpecDetect: overlap resolution over bounded candidate lists             *)
(***************************************************************************)
DetTextLen == 4
MaxCandidates == 3

DetectLabels == {PERSON, EMAIL}

\* the text the candidates were found in
DetText == [i \in 1..DetTextLen |-> IF i % 2 = 1 THEN "a" ELSE "b"]

InitDetect ==
    /\ dCandidates \in UNION {[1..k -> SpansOf(DetText, DetectLabels)] : k \in 0..MaxCandidates}
    /\ dResult = <<>>
    /\ CodecIdle /\ StreamIdle /\ PipeIdle /\ AppIdle /\ RestoreIdle

\* detect(text) resolves the candidates it collected
Detect ==
    /\ dResult = <<>>
    /\ dResult' = <<detect(dCandidates)>>
    /\ UNCHANGED <<dCandidates, codecVars, streamVars, pipeVars, appVars, restoreVars>>

NextDetect == Detect

SpecDetect == InitDetect /\ [][NextDetect]_vars

InSeq(x, seq) == \E i \in DOMAIN seq : seq[i] = x

\* a wins over b under the stated policy: longer, or equally long and earlier
Beats(a, b) ==
    \/ SpanLen(a) > SpanLen(b)
    \/ SpanLen(a) = SpanLen(b) /\ a.start < b.start

\* C10 (overlap policy): whenever two candidates overlap, the one with the
\* larger (end - start) is kept and the other dropped; on equal length the one
\* with the smaller start is kept.  Stated for pairs that overlap no third
\* candidate, so that the pair alone decides.
C10_LongerSpanWins ==
    dResult # <<>> =>
        \A i, j \in DOMAIN dCandidates :
            LET a == dCandidates[i]
                b == dCandidates[j]
            IN  (/\ Overlap(a, b)
                 /\ Beats(a, b)
                 /\ \A k \in DOMAIN dCandidates :
                        k \notin {i, j} => /\ ~Overlap(dCandidates[k], a)
                                           /\ ~Overlap(dCandidates[k], b))
                => (InSeq(a, dResult[1]) /\ ~InSeq(b, dResult[1]))

\* C11 (detector output shape): for every candidate list, detect returns
\* spans in ascending order of start, each starting at or after the end of
\* the one before it, and every returned span is one of the candidates.
C11_DetectorOutputShape ==
    dResult # <<>> =>
        LET r == dResult[1] IN
        /\ \A i \in 1..(Len(r) - 1) :
              /\ r[i].start <= r[i + 1].start
              /\ r[i + 1].start >= r[i].end
        /\ \A i \in DOMAIN r : InSeq(r[i], dCandidates)

\* detect has resolved candidates that overlapped and were not in order of
\* start, and returned more than one span
C11_Witness ==
    /\ dResult # <<>>
    /\ Len(dResult[1]) >= 2
    /\ \E i, j \in DOMAIN dCandidates :
          i < j /\ dCandidates[i].start > dCandidates[j].start
    /\ \E i, j \in DOMAIN dCandidates :
          i # j /\ Overlap(dCandidates[i], dCandidates[j])

(***************************************************************************)
(* Encryption service (kms/local.py)                                       *)
(***************************************************************************)
\* LocalKMS.encrypt: nonce + AES-GCM ciphertext of the plaintext.  A
\* ciphertext is modelled by its nonce, the plaintext it authenticates and
\* whether its tag still verifies (FALSE for a corrupted or foreign value).
encrypt(plaintext, nonce) == [nonce |-> nonce, plain |-> plaintext, valid |-> TRUE]

\* LocalKMS.decrypt raises InvalidTag exactly when the tag does not verify
DecryptRaises(ciphertext) == ~ciphertext.valid

\* LocalKMS.decrypt(ciphertext) when it does not raise
decrypt(ciphertext) == ciphertext.plain

\* a plausible slip: a failed entry falls back to the empty string
DecryptMappingBlank(mapping) ==
    [placeholder \in DOMAIN mapping |->
        IF DecryptRaises(mapping[placeholder]) THEN <<>>
        ELSE decrypt(mapping[placeholder])]

\* the decryption loop shared by restore_response and the streaming
\* restorers: a failed entry falls back to its own placeholder
DecryptMapping(mapping) ==
    [placeholder \in DOMAIN mapping |->
        IF DecryptRaises(mapping[placeholder]) THEN placeholder
        ELSE decrypt(mapping[placeholder])]

(***************************************************************************)
(* Streaming restorer (adapters/openai.py)                                 *)
(***************************************************************************)
\* re.compile(r"@@[A-Z_0-9]*$").search(s) scanning from 1-based index i: the
\* 1-based start of the leftmost match, or 0 (s holds no newline)
RECURSIVE PartialSearch(_, _)
PartialSearch(s, i) ==
    IF i > Len(s) THEN 0
    ELSE IF IsAtAt(s, i) /\ i + 2 + BodyRun(s, i + 2) = Len(s) + 1 THEN i
    ELSE PartialSearch(s, i + 1)

\* a plausible slip: the cut falls one character before the dangling marker
SafeCutEarly(buf) ==
    LET m == PartialSearch(buf, 1) IN
    IF m # 0 /\ ~PlaceholderFullMatch(SubSeq(buf, m, Len(buf)))
    THEN Max(m - 2, 0)
    ELSE Len(buf)

\* safe_cut for the buffer (a 0-based offset): the start of a dangling
\* opening marker that is not a complete placeholder, else len(buffer)
SafeCut(buf) ==
    LET m == PartialSearch(buf, 1) IN
    IF m # 0 /\ ~PlaceholderFullMatch(SubSeq(buf, m, Len(buf)))
    THEN m - 1
    ELSE Len(buf)

(***************************************************************************)
(* SpecStream: one stream, cut into chunks at every possible position      *)
(***************************************************************************)
MaxStreamLen == 5
MaxEmptyChunks == 1

StreamAlphabet == {"@", "A", "x"}
StreamToken == <<"@", "@", "A", "@", "@">>
StreamValue == <<"v">>

\* chat_result.mapping: without an entry, or with one for the token
StreamMappings == {EmptyMap, StreamToken :> encrypt(StreamValue, 0)}

\* a chunk is modelled by its text payload: <<>> when _extract_chunk_text
\* finds none, <<text>> otherwise.  ins lists the chunks read from the input
\* so far, outs the chunks yielded.
NoPayload == <<>>
Payload(text) == <<text>>

\* the text carried by a sequence of chunks
RECURSIVE ChunkTexts(_)
ChunkTexts(chunks) ==
    IF chunks = <<>> THEN <<>>
    ELSE (IF Head(chunks) = NoPayload THEN <<>> ELSE Head(chunks)[1])
         \o ChunkTexts(Tail(chunks))

InitStream ==
    /\ sFull \in StringsUpTo(StreamAlphabet, MaxStreamLen)
    /\ sMapping \in StreamMappings
    /\ sPos = 0
    /\ sCuts = {}
    /\ sEmpties = 0
    /\ ins = <<>>
    /\ buffer = <<>>
    /\ outs = <<>>
    /\ sDone = FALSE
    /\ CodecIdle /\ DetectIdle /\ PipeIdle /\ AppIdle /\ RestoreIdle

\* the loop body for a chunk that carries the next n characters of the stream
StreamChunk ==
    /\ ~sDone
    /\ \E n \in 1..(Len(sFull) - sPos) :
          LET text == SubSeq(sFull, sPos + 1, sPos + n)
              buf == buffer \o text
              safe_cut == SafeCut(buf)
              emit_text == Slice(buf, 0, safe_cut)
          IN  /\ ins' = Append(ins, Payload(text))
              /\ buffer' = SliceFrom(buf, safe_cut)
              /\ outs' = Append(outs, Payload(restore_from_placeholders(
                                          emit_text, DecryptMapping(sMapping))))
              /\ sPos' = sPos + n
              /\ sCuts' = IF sPos + n < Len(sFull) THEN sCuts \cup {sPos + n} ELSE sCuts
    /\ UNCHANGED <<sFull, sMapping, sEmpties, sDone, codecVars, detectVars, pipeVars, appVars, restoreVars>>

\* a plausible slip: a chunk without text is consumed and not yielded
StreamEmptyChunkDropped ==
    /\ ~sDone
    /\ sEmpties < MaxEmptyChunks
    /\ \E chunk \in {NoPayload, Payload(<<>>)} :
          ins' = Append(ins, chunk)
    /\ sEmpties' = sEmpties + 1
    /\ UNCHANGED <<sFull, sMapping, sPos, sCuts, buffer, outs, sDone,
                   codecVars, detectVars, pipeVars, appVars, restoreVars>>

\* the loop body for a chunk without text (None) or with empty text: the
\* chunk is yielded as it came
StreamEmptyChunk ==
    /\ ~sDone
    /\ sEmpties < MaxEmptyChunks
    /\ \E chunk \in {NoPayload, Payload(<<>>)} :
          /\ ins' = Append(ins, chunk)
          /\ outs' = Append(outs, chunk)
    /\ sEmpties' = sEmpties + 1
    /\ UNCHANGED <<sFull, sMapping, sPos, sCuts, buffer, sDone,
                   codecVars, detectVars, pipeVars, appVars, restoreVars>>

\* a plausible slip: the generator returns without the tail chunk
StreamEndNoTail ==
    /\ ~sDone
    /\ sPos = Len(sFull)
    /\ sDone' = TRUE
    /\ UNCHANGED <<sFull, sMapping, sPos, sCuts, sEmpties, ins, buffer, outs,
                   codecVars, detectVars, pipeVars, appVars, restoreVars>>

\* the input is exhausted: a non-empty buffer is restored into a tail chunk
StreamEnd ==
    /\ ~sDone
    /\ sPos = Len(sFull)
    /\ outs' = IF buffer # <<>>
               THEN Append(outs, Payload(restore_from_placeholders(
                                     buffer, DecryptMapping(sMapping))))
               ELSE outs
    /\ sDone' = TRUE
    /\ UNCHANGED <<sFull, sMapping, sPos, sCuts, sEmpties, ins, buffer,
                   codecVars, detectVars, pipeVars, appVars, restoreVars>>

NextStream == StreamChunk \/ StreamEmptyChunk \/ StreamEnd

SpecStream == InitStream /\ [][NextStream]_vars

\* the consumer iterates the generator to its end and the input is finite:
\* a step that can be taken is taken
SpecStreamLive == SpecStream /\ WF_vars(NextStream)

\* C2 (chunking independence): the concatenation of the emitted texts equals
\* restore_from_placeholders applied to the concatenation of the input chunk
\* texts, wherever the chunk boundaries fall.
C2_ChunkingIndependent ==
    sDone => ChunkTexts(outs) = restore_from_placeholders(sFull, DecryptMapping(sMapping))

\* the stream is one mapped token between texts without "@", the token is
\* restored to a value without "@", and a chunk boundary falls inside it
SplitTokenCase ==
    /\ StreamToken \in DOMAIN sMapping
    /\ ~HasChar(DecryptMapping(sMapping)[StreamToken], "@")
    /\ \E i \in 1..(Len(sFull) - Len(StreamToken) + 1) :
          /\ SubSeq(sFull, i, i + Len(StreamToken) - 1) = StreamToken
          /\ ~HasChar(SubSeq(sFull, 1, i - 1), "@")
          /\ ~HasChar(SubSeq(sFull, i + Len(StreamToken), Len(sFull)), "@")
          /\ \E c \in sCuts : i <= c /\ c < i + Len(StreamToken) - 1

\* C3 (partial-token safety): when a mapped placeholder is split across
\* chunks at any position, no emitted chunk carries a piece of the token; its
\* characters come out only as the restored value.  In SplitTokenCase every
\* "@" of the input belongs to the token, so no emitted text may hold one.
C3_NoTruncatedToken ==
    SplitTokenCase => \A k \in DOMAIN outs : ~HasChar(ChunkTexts(<<outs[k]>>), "@")

(***************************************************************************)
(* Mapping store (core/mapping_store.py)                                   *)
(***************************************************************************)
\* MappingStore.set(placeholder, value)
MappingStoreSet(st, key, value) == (key :> value) @@ st

\* MappingStore.get(placeholder): <<value>>, or <<>> for None
MappingStoreGet(st, key) == IF key \in DOMAIN st THEN <<st[key]>> ELSE <<>>

\* a plausible slip: the flag does not tell whether the key was there
MappingStoreRemoveAlways(st, key) ==
    [store |-> [k \in DOMAIN st \ {key} |-> st[k]], found |-> TRUE]

\* MappingStore.remove(placeholder): the store afterwards and the flag returned
MappingStoreRemove(st, key) ==
    IF key \in DOMAIN st
    THEN [store |-> [k \in DOMAIN st \ {key} |-> st[k]], found |-> TRUE]
    ELSE [store |-> st, found |-> FALSE]

\* MappingStore.clear()
MappingStoreClear(st) == EmptyMap

\* MappingStore.__len__()
MappingStoreLen(st) == Cardinality(DOMAIN st)

(***************************************************************************)
(* Pipeline (core/pipeline.py)                                             *)
(***************************************************************************)
\* the parameters replace_with_placeholders declares: (text, entities)
ReplaceParams == 2

\* the positional arguments sanitize_prompt passes to it:
\* (prompt, entities, label_counters)
SanitizeCallArgs == 3

\* Python raises TypeError when a call passes a number of positional
\* arguments that a function without defaults or *args does not declare
CallRaisesTypeError(nargs, nparams) == nargs # nparams

\* the message of that TypeError
ArityMessage == "replace_with_placeholders() takes 2 positional arguments but 3 were given"

\* f"{session_id}:{placeholder}"
SessionKey(session_id, placeholder) == session_id \o <<":">> \o placeholder

\* uuid4().hex of the n-th call: a fresh id, distinct from the earlier ones
UuidHex(n) == <<"f">> \o IntToStr(n)

\* SanitizedResult
SanitizedResult(sanitized_text, mapping, original_text, session_id, entities) ==
    [sanitized_text |-> sanitized_text, mapping |-> mapping,
     original_text |-> original_text, session_id |-> session_id,
     entities |-> entities]

\* the loop of sanitize_prompt over plaintext_mapping.items(): every value is
\* encrypted, kept for the result and written to the store
RECURSIVE EncryptLoop(_, _, _, _, _)
EncryptLoop(todo, plaintext_mapping, session_id, nonce, acc) ==
    IF todo = {} THEN acc
    ELSE LET placeholder == CHOOSE p \in todo : TRUE
             encrypted_value == encrypt(plaintext_mapping[placeholder], nonce)
         IN  EncryptLoop(todo \ {placeholder}, plaintext_mapping, session_id, nonce,
                 [mapping |-> (placeholder :> encrypted_value) @@ acc.mapping,
                  store |-> MappingStoreSet(acc.store,
                                SessionKey(session_id, placeholder), encrypted_value)])

\* Pipeline.sanitize_prompt.  detection is the outcome of
\* self.detector.detect(prompt); session_id is <<>> for None or <<id>>; fresh
\* is the id uuid4().hex would return.  The outcome names the exception
\* raised ("none" when the call returns), the result and the store.
sanitize_prompt(prompt, detection, session_id, fresh, nonce, st) ==
    IF detection.raised # "none"
    THEN [raised |-> detection.raised, message |-> detection.message,
          ret |-> <<>>, store |-> st]
    ELSE IF CallRaisesTypeError(SanitizeCallArgs, ReplaceParams)
    THEN [raised |-> "TypeError", message |-> ArityMessage, ret |-> <<>>, store |-> st]
    ELSE LET entities == detection.ret
             replaced == replace_with_placeholders(prompt, entities)
             sid == IF session_id = <<>> \/ session_id = <<<<>>>>
                    THEN fresh ELSE session_id[1]
             done == EncryptLoop(DOMAIN replaced.mapping, replaced.mapping, sid, nonce,
                                 [mapping |-> EmptyMap, store |-> st])
         IN  [raised |-> "none", message |-> "",
              ret |-> <<SanitizedResult(replaced.text, done.mapping, prompt, sid, entities)>>,
              store |-> done.store]

\* the loop of Pipeline.sanitize_messages: each message goes through
\* sanitize_prompt with the shared session id; an exception ends the call
RECURSIVE MessagesLoop(_, _, _, _, _, _)
MessagesLoop(messages, detected, session_id, nonce, acc, st) ==
    IF messages = <<>>
    THEN [raised |-> "none", message |-> "", ret |-> <<acc>>, store |-> st]
    ELSE LET sanitized == sanitize_prompt(Head(messages), Head(detected),
                                          <<session_id>>, session_id, nonce, st)
         IN  IF sanitized.raised # "none"
             THEN [raised |-> sanitized.raised, message |-> sanitized.message,
                   ret |-> <<>>, store |-> sanitized.store]
             ELSE MessagesLoop(Tail(messages), Tail(detected), session_id, nonce,
                      [acc EXCEPT
                          !.sanitized_messages = Append(@, sanitized.ret[1].sanitized_text),
                          !.mapping = sanitized.ret[1].mapping @@ @,
                          !.entities = @ \o sanitized.ret[1].entities],
                      sanitized.store)

\* Pipeline.sanitize_messages(messages); detected[i] is the outcome of
\* detector.detect for the i-th message
sanitize_messages(messages, detected, fresh, nonce, st) ==
    MessagesLoop(messages, detected, fresh, nonce,
                 [sanitized_messages |-> <<>>, mapping |-> EmptyMap,
                  session_id |-> fresh, entities |-> <<>>,
                  original_messages |-> messages],
                 st)

\* a plausible slip: the bare placeholder is removed, not the session key
RECURSIVE ClearLoopBareKey(_, _, _)
ClearLoopBareKey(todo, session_id, st) ==
    IF todo = {} THEN st
    ELSE LET placeholder == CHOOSE p \in todo : TRUE IN
         ClearLoopBareKey(todo \ {placeholder}, session_id,
                          MappingStoreRemove(st, placeholder).store)

\* the loop of clear_session_mappings over sanitized_result.mapping.keys()
RECURSIVE ClearLoop(_, _, _)
ClearLoop(todo, session_id, st) ==
    IF todo = {} THEN st
    ELSE LET placeholder == CHOOSE p \in todo : TRUE IN
         ClearLoop(todo \ {placeholder}, session_id,
                   MappingStoreRemove(st, SessionKey(session_id, placeholder)).store)

\* Pipeline.clear_session_mappings(sanitized_result): the store afterwards
clear_session_mappings(sanitized_result, st) ==
    ClearLoop(DOMAIN sanitized_result.mapping, sanitized_result.session_id, st)

\* a plausible slip: the session's entries are removed whatever the flag says
RestoreResponseAlwaysClears(text, sanitized_result, clear_mappings, st) ==
    [ret |-> restore_from_placeholders(text, DecryptMapping(sanitized_result.mapping)),
     store |-> clear_session_mappings(sanitized_result, st)]

\* a plausible slip: the values are looked up in the store under the session
\* keys, and a placeholder without a stored value is left as it is
RestoreResponseFromStore(text, sanitized_result, clear_mappings, st) ==
    [ret |-> restore_from_placeholders(text,
                 DecryptMapping([p \in {q \in DOMAIN sanitized_result.mapping :
                                           SessionKey(sanitized_result.session_id, q)
                                               \in DOMAIN st}
                                 |-> st[SessionKey(sanitized_result.session_id, p)]])),
     store |-> IF clear_mappings THEN clear_session_mappings(sanitized_result, st) ELSE st]

\* Pipeline.restore_response(text, sanitized_result, clear_mappings): the text
\* returned and the store afterwards
restore_response(text, sanitized_result, clear_mappings, st) ==
    [ret |-> restore_from_placeholders(text, DecryptMapping(sanitized_result.mapping)),
     store |-> IF clear_mappings THEN clear_session_mappings(sanitized_result, st) ELSE st]

(***************************************************************************)
(* Spec: one pipeline and its mapping store, driven by a caller.  The      *)
(* store is the object handed to Pipeline.__init__, so the caller can      *)
(* also reach MappingStore directly; the results passed to                 *)
(* restore_response and clear_session_mappings are SanitizedResult values  *)
(* the caller holds.                                                       *)
(***************************************************************************)
PipePrompts == {<<>>, <<"a", "b">>}
PipeSessionIds == {<<"a">>, <<"b">>}
PipeLabels == {EMAIL}

\* what one call draws at random: os.urandom(12) and uuid4().hex
Randoms == {[nonce |-> 0, uuid |-> UuidHex(0)], [nonce |-> 1, uuid |-> UuidHex(1)]}

CipherX == encrypt(<<"x">>, 0)
CipherY == encrypt(<<"y">>, 0)

\* a stored value whose authentication tag no longer verifies (corrupted, or
\* encrypted under another key)
CipherBad == [encrypt(<<"x">>, 0) EXCEPT !.valid = FALSE]

\* a prompt with what detect returns for it, whatever the NER model and the
\* pattern matchers propose: <<prompt, entities>>
PipeInputs ==
    UNION {{<<prompt, detect(c)>> :
               c \in {<<>>} \cup {<<x>> : x \in SpansOf(prompt, PipeLabels)}
                     \cup {<<x, y>> : x, y \in SpansOf(prompt, PipeLabels)}} :
           prompt \in PipePrompts}

\* message lists of up to two messages
PipeBatches ==
    {<<>>} \cup {<<x>> : x \in PipeInputs} \cup {<<x, y>> : x, y \in PipeInputs}

\* the texts a caller asks to restore
PipeTexts ==
    {Placeholder(EMAIL, 1),
     <<"h">> \o Placeholder(EMAIL, 1) \o <<" ">> \o Placeholder(EMAIL, 2)}

\* the mappings of the results a caller holds; two of them name the same
\* placeholder for different values, one holds a value that fails to decrypt
PipeMappings ==
    {EmptyMap,
     Placeholder(EMAIL, 1) :> CipherX,
     Placeholder(EMAIL, 1) :> CipherY,
     (Placeholder(EMAIL, 1) :> CipherX) @@ (Placeholder(EMAIL, 2) :> CipherY),
     (Placeholder(EMAIL, 1) :> CipherBad) @@ (Placeholder(EMAIL, 2) :> CipherY)}

\* the SanitizedResult values a caller can hold
CallerResults ==
    {SanitizedResult(<<>>, m, <<>>, sid, <<>>) : m \in PipeMappings, sid \in PipeSessionIds}

\* the entries written to the store: the same placeholder names under both
\* sessions, with different values
PipeEntries ==
    {<<SessionKey(<<"a">>, Placeholder(EMAIL, 1)), CipherX>>,
     <<SessionKey(<<"b">>, Placeholder(EMAIL, 1)), CipherY>>,
     <<SessionKey(<<"a">>, Placeholder(EMAIL, 2)), CipherY>>,
     <<SessionKey(<<"b">>, Placeholder(EMAIL, 2)), CipherX>>}

PipeKeys == {e[1] : e \in PipeEntries}

\* the store keys of a result
KeysOf(result) == {SessionKey(result.session_id, p) : p \in DOMAIN result.mapping}

Init ==
    /\ store = EmptyMap
    /\ last = [op |-> "init"]
    /\ base = EmptyMap
    /\ clearedSince = {}
    /\ CodecIdle /\ DetectIdle /\ StreamIdle /\ AppIdle /\ RestoreIdle

\* history: base is the store as of the last write that was not a session
\* cleanup, clearedSince the keys of the results cleaned up since then
Written(st) == base' = st /\ clearedSince' = {}
Cleaned(result) == base' = base /\ clearedSince' = clearedSince \cup KeysOf(result)

\* pipeline.sanitize_prompt(prompt) and
\* pipeline.sanitize_prompt(prompt, session_id=...)
SanitizePrompt ==
    \E input \in PipeInputs, rnd \in Randoms, session_id \in {<<>>, <<<<"a">>>>} :
        LET out == sanitize_prompt(input[1], DetectorDetect(model_installed, input[2]),
                                   session_id, rnd.uuid, rnd.nonce, store)
        IN  /\ store' = out.store
            /\ last' = [op |-> "sanitize_prompt", prompt |-> input[1],
                        entities |-> input[2], session_id |-> session_id,
                        len_before |-> MappingStoreLen(store),
                        raised |-> out.raised, message |-> out.message,
                        ret |-> out.ret]
            /\ IF out.store = store THEN UNCHANGED <<base, clearedSince>>
               ELSE Written(out.store)
            /\ UNCHANGED <<codecVars, detectVars, streamVars, appVars, restoreVars>>

\* pipeline.sanitize_messages(messages)
SanitizeMessages ==
    \E batch \in PipeBatches, rnd \in Randoms :
        LET messages == [i \in DOMAIN batch |-> batch[i][1]]
            detected == [i \in DOMAIN batch |-> batch[i][2]]
            out == sanitize_messages(messages,
                       [i \in DOMAIN detected |->
                           DetectorDetect(model_installed, detected[i])],
                       rnd.uuid, rnd.nonce, store)
        IN  /\ store' = out.store
            /\ last' = [op |-> "sanitize_messages", messages |-> messages,
                        detected |-> detected, raised |-> out.raised, ret |-> out.ret]
            /\ IF out.store = store THEN UNCHANGED <<base, clearedSince>>
               ELSE Written(out.store)
            /\ UNCHANGED <<codecVars, detectVars, streamVars, appVars, restoreVars>>

\* pipeline.restore_response(text, result, clear_mappings)
RestoreResponse ==
    \E text \in PipeTexts, result \in CallerResults, clear_mappings \in BOOLEAN :
        LET out == restore_response(text, result, clear_mappings, store) IN
        /\ store' = out.store
        /\ last' = [op |-> "restore_response", text |-> text, result |-> result,
                    clear_mappings |-> clear_mappings, raised |-> "none",
                    ret |-> out.ret]
        /\ IF clear_mappings THEN Cleaned(result) ELSE UNCHANGED <<base, clearedSince>>
        /\ UNCHANGED <<codecVars, detectVars, streamVars, appVars, restoreVars>>

\* pipeline.clear_session_mappings(result)
ClearSessionMappings ==
    \E result \in CallerResults :
        /\ store' = clear_session_mappings(result, store)
        /\ last' = [op |-> "clear_session_mappings", result |-> result,
                    raised |-> "none"]
        /\ Cleaned(result)
        /\ UNCHANGED <<codecVars, detectVars, streamVars, appVars, restoreVars>>

\* mapping_store.set(key, value)
StoreSet ==
    \E entry \in PipeEntries :
        /\ store' = MappingStoreSet(store, entry[1], entry[2])
        /\ last' = [op |-> "set", key |-> entry[1], value |-> entry[2],
                    raised |-> "none"]
        /\ Written(store')
        /\ UNCHANGED <<codecVars, detectVars, streamVars, appVars, restoreVars>>

\* mapping_store.get(key)
StoreGet ==
    \E key \in PipeKeys :
        /\ last' = [op |-> "get", key |-> key, raised |-> "none",
                    ret |-> MappingStoreGet(store, key)]
        /\ UNCHANGED <<store, base, clearedSince, codecVars, detectVars, streamVars, appVars, restoreVars>>

\* mapping_store.remove(key)
StoreRemove ==
    \E key \in PipeKeys :
        LET out == MappingStoreRemove(store, key) IN
        /\ store' = out.store
        /\ last' = [op |-> "remove", key |-> key, raised |-> "none",
                    ret |-> out.found]
        /\ Written(out.store)
        /\ UNCHANGED <<codecVars, detectVars, streamVars, appVars, restoreVars>>

\* mapping_store.clear()
StoreClear ==
    /\ store' = MappingStoreClear(store)
    /\ last' = [op |-> "clear", raised |-> "none"]
    /\ Written(store')
    /\ UNCHANGED <<codecVars, detectVars, streamVars, appVars, restoreVars>>

Next ==
    \/ SanitizePrompt
    \/ SanitizeMessages
    \/ RestoreResponse
    \/ ClearSessionMappings
    \/ StoreSet
    \/ StoreGet
    \/ StoreRemove
    \/ StoreClear

Spec == Init /\ [][Next]_vars

(***************************************************************************)
(* Settings (config/settings.py)                                           *)
(***************************************************************************)
\* Settings(): enable_pii_protection is read from the environment variable
\* REDACTA_ENABLE_PII_PROTECTION when the instance is built
Settings(env_enable) == [enable_pii_protection |-> env_enable]

\* a plausible slip: the cache is not cleared
CacheClearSkipped(cache) == cache

\* get_settings.cache_clear(): the lru_cache afterwards
cache_clear(cache) == <<>>

\* get_settings() under lru_cache: the cached instance when there is one,
\* else a new Settings(), which is cached
get_settings(cache, env_enable) ==
    IF cache # <<>>
    THEN [settings |-> cache[1], cache |-> cache]
    ELSE [settings |-> Settings(env_enable), cache |-> <<Settings(env_enable)>>]

(***************************************************************************)
(* Call arguments and responses (adapters/openai.py)                       *)
(*                                                                         *)
(* A keyword argument or message is a tagged value: absent, a str, a list, *)
(* a message dict with its "content", or a value of any other type.        *)
(***************************************************************************)
AbsentValue == [kind |-> "absent"]
OtherValue == [kind |-> "other"]
StrValue(text) == [kind |-> "str", text |-> text]
ListValue(items) == [kind |-> "list", items |-> items]
DictValue(content) == [kind |-> "dict", content |-> content]

\* the keyword arguments of a call: input, messages and stream
Kwargs(input, messages, stream) ==
    [input |-> input, messages |-> messages, stream |-> stream]

\* a plausible slip: a list is taken for input whatever it holds
ExtractInputLoose(kwargs) ==
    LET input_value == kwargs.input IN
    IF input_value.kind = "str" THEN <<input_value.text>>
    ELSE IF input_value.kind = "list"
         THEN IF input_value.items # <<>> /\ input_value.items[1].kind = "str"
              THEN <<input_value.items[1].text>>
              ELSE <<<<>>>>
         ELSE <<>>

\* extract_input_from_kwargs(kwargs): <<>> for None, else <<text>>
extract_input_from_kwargs(kwargs) ==
    LET input_value == kwargs.input IN
    IF input_value.kind = "str" THEN <<input_value.text>>
    ELSE IF /\ input_value.kind = "list"
            /\ input_value.items # <<>>
            /\ input_value.items[1].kind = "str"
         THEN <<input_value.items[1].text>>
         ELSE <<>>

\* set_input_in_kwargs(kwargs, new_input)
set_input_in_kwargs(kwargs, new_input) ==
    IF kwargs.input.kind = "absent" THEN kwargs
    ELSE IF kwargs.input.kind = "list"
         THEN [kwargs EXCEPT !.input = ListValue(<<StrValue(new_input)>>)]
         ELSE [kwargs EXCEPT !.input = StrValue(new_input)]

\* extract_messages_from_kwargs(kwargs): <<>> for None, else <<messages>>
extract_messages_from_kwargs(kwargs) ==
    IF kwargs.messages.kind = "list" THEN <<kwargs.messages.items>> ELSE <<>>

\* set_messages_in_kwargs(kwargs, sanitized_messages)
set_messages_in_kwargs(kwargs, sanitized_messages) ==
    IF kwargs.messages.kind = "absent" THEN kwargs
    ELSE [kwargs EXCEPT !.messages = ListValue(sanitized_messages)]

\* a response: None, an object that carries its text where get_output_text
\* looks for it, or the chunk iterator of a streaming call
NoneResponse == [kind |-> "none"]
TextResponse(text) == [kind |-> "text", text |-> text]
StreamResponse(chunks) == [kind |-> "stream", chunks |-> chunks]

\* get_output_text(response): <<>> for None, else <<text>>
get_output_text(response) ==
    IF response.kind = "text" THEN <<response.text>> ELSE <<>>

\* set_output_text(response, new_text)
set_output_text(response, new_text) ==
    IF response.kind = "text" THEN [response EXCEPT !.text = new_text] ELSE response

\* SanitizedChatResult
SanitizedChatResult(sanitized_messages, mapping, session_id, entities, original_messages) ==
    [sanitized_messages |-> sanitized_messages, mapping |-> mapping,
     session_id |-> session_id, entities |-> entities,
     original_messages |-> original_messages]

\* the loop of the adapter's sanitize_messages over messages_copy: a str
\* message and the str content of a dict message go through
\* pipeline.sanitize_prompt with the shared session id, every other message
\* is appended as it came.  events counts the detector calls made.
RECURSIVE AdapterLoop(_, _, _, _, _, _, _)
AdapterLoop(messages, detection, session_id, nonce, acc, events, st) ==
    IF messages = <<>>
    THEN [raised |-> "none", message |-> "", ret |-> <<acc>>,
          events |-> events, store |-> st]
    ELSE LET message == Head(messages)
             content == IF message.kind = "dict" THEN message.content ELSE message
         IN  IF content.kind # "str"
             THEN AdapterLoop(Tail(messages), detection, session_id, nonce,
                      [acc EXCEPT !.sanitized_messages = Append(@, message)],
                      events, st)
             ELSE LET sanitized == sanitize_prompt(content.text, detection,
                                       <<session_id>>, session_id, nonce, st)
                  IN  IF sanitized.raised # "none"
                      THEN [raised |-> sanitized.raised, message |-> sanitized.message,
                            ret |-> <<>>, events |-> Append(events, "detect"),
                            store |-> sanitized.store]
                      ELSE LET text == StrValue(sanitized.ret[1].sanitized_text) IN
                           AdapterLoop(Tail(messages), detection, session_id, nonce,
                               [acc EXCEPT
                                   !.sanitized_messages =
                                       Append(@, IF message.kind = "dict"
                                                 THEN DictValue(text) ELSE text),
                                   !.mapping = sanitized.ret[1].mapping @@ @,
                                   !.entities = @ \o sanitized.ret[1].entities],
                               Append(events, "detect"), sanitized.store)

\* the adapter's sanitize_messages(messages, pipeline); detection is the
\* outcome of detector.detect for the text the messages carry
adapter_sanitize_messages(messages, detection, fresh, nonce, st) ==
    AdapterLoop(messages, detection, fresh, nonce,
                SanitizedChatResult(<<>>, EmptyMap, fresh, <<>>, messages),
                <<>>, st)

(***************************************************************************)
(* Decorators (decorators.py)                                              *)
(***************************************************************************)
\* the text a value carries
RECURSIVE ValueText(_)
ValueText(value) ==
    IF value.kind = "str" THEN value.text
    ELSE IF value.kind = "dict" THEN ValueText(value.content)
    ELSE IF value.kind = "list"
         THEN IF value.items = <<>> THEN <<>>
              ELSE ValueText(Head(value.items))
                       \o ValueText(ListValue(Tail(value.items)))
         ELSE <<>>

\* the text the wrapped function receives
ForwardedText(kwargs) == ValueText(kwargs.input) \o ValueText(kwargs.messages)

\* the wrapped function: it answers None, or echoes the text it received, as
\* a response object or, for a streaming call, as an iterator of chunks
Funcs == {"echo", "none"}

Respond(func, kwargs) ==
    IF func = "none" THEN NoneResponse
    ELSE IF kwargs.stream THEN StreamResponse(<<ForwardedText(kwargs)>>)
    ELSE TextResponse(ForwardedText(kwargs))

\* return func(*args, **kwargs): the outcome of a call that hands the
\* arguments through
PassThrough(func, kwargs, st) ==
    [raised |-> "none", message |-> "", calls |-> <<kwargs>>,
     ret |-> <<Respond(func, kwargs)>>, events |-> <<"call">>, store |-> st]

\* the outcome of a call in which the pipeline raised
Propagated(raised, message, events, st) ==
    [raised |-> raised, message |-> message, calls |-> <<>>, ret |-> <<>>,
     events |-> events, store |-> st]

\* the _log_verbose entries around the wrapped call
LogsBefore(effective_verbose) ==
    IF effective_verbose THEN <<"sanitize_prompt", "detected_entities">> ELSE <<>>

LogsAfter(effective_verbose) ==
    IF effective_verbose THEN <<"llm_response_placeholders">> ELSE <<>>

\* the wrapper of pii_protect_openai_responses(pipeline, verbose=verbose_arg)
\* after the settings were read.  verbose_arg is <<>> for None.  events lists,
\* in order, the detector calls ("detect"), the log entries by stage and the
\* call of the wrapped function ("call").
responses_wrapper(func, kwargs, verbose_arg, pipeline_verbose, settings, detection, rnd, st) ==
    IF ~settings.enable_pii_protection THEN PassThrough(func, kwargs, st)
    ELSE LET input_text == extract_input_from_kwargs(kwargs) IN
    IF input_text = <<>> THEN PassThrough(func, kwargs, st)
    ELSE LET sanitized == sanitize_prompt(input_text[1], detection, <<>>,
                                          rnd.uuid, rnd.nonce, st) IN
    IF sanitized.raised # "none"
    THEN Propagated(sanitized.raised, sanitized.message, <<"detect">>, sanitized.store)
    ELSE LET sanitized_result == sanitized.ret[1]
             forwarded == set_input_in_kwargs(kwargs, sanitized_result.sanitized_text)
             effective_verbose == IF verbose_arg # <<>> THEN verbose_arg[1]
                                  ELSE pipeline_verbose
             response == Respond(func, forwarded)
             output_text == get_output_text(response)
         IN  [raised |-> "none", message |-> "", calls |-> <<forwarded>>,
              ret |-> <<IF output_text # <<>>
                        THEN set_output_text(response,
                                 restore_response(output_text[1], sanitized_result,
                                                  FALSE, sanitized.store).ret)
                        ELSE response>>,
              events |-> <<"detect">> \o LogsBefore(effective_verbose) \o <<"call">>
                             \o LogsAfter(effective_verbose),
              store |-> sanitized.store]

\* the wrapper of pii_protect_openai_chat(pipeline, verbose=verbose_arg) after
\* the settings were read
chat_wrapper(func, kwargs, verbose_arg, settings, detection, rnd, st) ==
    IF ~settings.enable_pii_protection THEN PassThrough(func, kwargs, st)
    ELSE LET messages == extract_messages_from_kwargs(kwargs) IN
    IF messages = <<>> THEN PassThrough(func, kwargs, st)
    ELSE LET sanitized == adapter_sanitize_messages(messages[1], detection,
                                                    rnd.uuid, rnd.nonce, st) IN
    IF sanitized.raised # "none"
    THEN Propagated(sanitized.raised, sanitized.message, sanitized.events, sanitized.store)
    ELSE LET chat_result == sanitized.ret[1]
             forwarded == set_messages_in_kwargs(kwargs, chat_result.sanitized_messages)
             default_verbose == IF verbose_arg = <<>> THEN TRUE ELSE verbose_arg[1]
             response == Respond(func, forwarded)
             sanitized_result_for_restore ==
                 SanitizedResult(<<>>, chat_result.mapping, <<>>,
                                 chat_result.session_id, chat_result.entities)
             output_text == get_output_text(response)
             events == sanitized.events \o LogsBefore(default_verbose) \o <<"call">>
                           \o LogsAfter(default_verbose)
         IN  IF kwargs.stream /\ response.kind # "none"
             THEN [raised |-> "none", message |-> "", calls |-> <<forwarded>>,
                   ret |-> <<[kind |-> "restoring", chunks |-> response,
                              mapping |-> chat_result.mapping]>>,
                   events |-> events, store |-> sanitized.store]
             ELSE [raised |-> "none", message |-> "", calls |-> <<forwarded>>,
                   ret |-> <<IF output_text # <<>>
                             THEN set_output_text(response,
                                      restore_response(output_text[1],
                                          sanitized_result_for_restore,
                                          FALSE, sanitized.store).ret)
                             ELSE response>>,
                   events |-> events, store |-> sanitized.store]

(***************************************************************************)
(* SpecApp: an application that calls decorated functions and the pipeline *)
(* while the environment variable and Pipeline.verbose are changed between *)
(* calls.  The spaCy model is installed or not for the whole run, and the  *)
(* mapping store handed to the pipeline is empty or already holds an entry *)
(* of another session.                                                     *)
(***************************************************************************)
AppText == <<"a", "b">>

\* what detect returns for the text of a call
AppEntities ==
    {<<>>,
     <<EntitySpan(EMAIL, 0, 1, <<"a">>)>>,
     <<EntitySpan(EMAIL, 0, 1, <<"a">>), EntitySpan(EMAIL, 1, 2, <<"b">>)>>}

\* keyword arguments of calls to a function decorated for the Responses API:
\* no input, an input that is neither str nor list, an empty list, a list of
\* non-strings, a str and a list of str
ResponsesKwargsNoText ==
    {Kwargs(v, AbsentValue, FALSE) :
        v \in {AbsentValue, OtherValue, ListValue(<<>>), ListValue(<<OtherValue>>)}}

ResponsesKwargsText ==
    {Kwargs(v, AbsentValue, FALSE) :
        v \in {StrValue(AppText), ListValue(<<StrValue(AppText)>>)}}

\* keyword arguments of calls to a function decorated for chat: no messages,
\* messages that are not a list, and lists of messages without and with str
\* content
ChatKwargsNoText ==
    {Kwargs(AbsentValue, v, stream) :
        v \in {AbsentValue, OtherValue, StrValue(AppText), ListValue(<<>>),
               ListValue(<<DictValue(OtherValue)>>)},
        stream \in BOOLEAN}

ChatKwargsText ==
    {Kwargs(AbsentValue, v, stream) :
        v \in {ListValue(<<StrValue(AppText)>>),
               ListValue(<<DictValue(StrValue(AppText))>>),
               ListValue(<<DictValue(OtherValue), DictValue(StrValue(AppText))>>)},
        stream \in BOOLEAN}

\* a call: its keyword arguments and what detect returns for their text
Calls(no_text, with_text) ==
    {[kwargs |-> k, entities |-> <<>>] : k \in no_text}
        \cup {[kwargs |-> k, entities |-> e] : k \in with_text, e \in AppEntities}

\* the verbose argument of a decorator: None, True or False
VerboseArgs == {<<>>, <<TRUE>>, <<FALSE>>}

Wrappers == {"pii_protect_openai_responses", "pii_protect_openai_chat"}

InitApp ==
    /\ store \in {EmptyMap, SessionKey(<<"a">>, Placeholder(EMAIL, 1)) :> CipherX}
    /\ last = [op |-> "init"]
    /\ base = store
    /\ clearedSince = {}
    /\ enable_pii_protection = TRUE
    /\ settings_cache = <<>>
    /\ verbose = FALSE
    /\ model_installed \in BOOLEAN
    /\ CodecIdle /\ DetectIdle /\ StreamIdle /\ RestoreIdle

\* monkeypatch.setenv("REDACTA_ENABLE_PII_PROTECTION", ...) / delenv
SetEnv ==
    /\ enable_pii_protection' = ~enable_pii_protection
    /\ last' = [op |-> "setenv"]
    /\ UNCHANGED <<store, base, clearedSince, settings_cache, verbose, model_installed,
                   codecVars, detectVars, streamVars, restoreVars>>

\* pipeline.verbose = ...
SetVerbose ==
    /\ verbose' = ~verbose
    /\ last' = [op |-> "set_verbose"]
    /\ UNCHANGED <<store, base, clearedSince, enable_pii_protection, settings_cache,
                   model_installed, codecVars, detectVars, streamVars, restoreVars>>

\* the record of a decorated call and its outcome
WrapperCall(op, func, call, verbose_arg, out) ==
    [op |-> op, func |-> func, kwargs |-> call.kwargs, entities |-> call.entities,
     verbose_arg |-> verbose_arg, raised |-> out.raised, message |-> out.message,
     calls |-> out.calls, ret |-> out.ret, events |-> out.events]

\* a call of a function decorated with pii_protect_openai_responses
ResponsesWrapper ==
    \E func \in Funcs, call \in Calls(ResponsesKwargsNoText, ResponsesKwargsText),
       verbose_arg \in VerboseArgs, rnd \in Randoms :
        \E got \in {get_settings(cache_clear(settings_cache), enable_pii_protection)} :
        \E out \in {responses_wrapper(func, call.kwargs, verbose_arg, verbose,
                        got.settings, DetectorDetect(model_installed, call.entities),
                        rnd, store)} :
            /\ settings_cache' = got.cache
            /\ store' = out.store
            /\ last' = WrapperCall("pii_protect_openai_responses", func, call,
                                   verbose_arg, out)
            /\ IF out.store = store THEN UNCHANGED <<base, clearedSince>>
               ELSE Written(out.store)
            /\ UNCHANGED <<enable_pii_protection, verbose, model_installed,
                           codecVars, detectVars, streamVars, restoreVars>>

\* a call of a function decorated with pii_protect_openai_chat
ChatWrapper ==
    \E func \in Funcs, call \in Calls(ChatKwargsNoText, ChatKwargsText),
       verbose_arg \in VerboseArgs, rnd \in Randoms :
        \E got \in {get_settings(cache_clear(settings_cache), enable_pii_protection)} :
        \E out \in {chat_wrapper(func, call.kwargs, verbose_arg, got.settings,
                        DetectorDetect(model_installed, call.entities), rnd, store)} :
            /\ settings_cache' = got.cache
            /\ store' = out.store
            /\ last' = WrapperCall("pii_protect_openai_chat", func, call,
                                   verbose_arg, out)
            /\ IF out.store = store THEN UNCHANGED <<base, clearedSince>>
               ELSE Written(out.store)
            /\ UNCHANGED <<enable_pii_protection, verbose, model_installed,
                           codecVars, detectVars, streamVars, restoreVars>>

NextApp ==
    \/ SetEnv
    \/ SetVerbose
    \/ ResponsesWrapper
    \/ ChatWrapper
    \/ SanitizePrompt

SpecApp == InitApp /\ [][NextApp]_vars

\* C5 (session-scoped cleanup): after clear_session_mappings(R) the store
\* holds no key "R.session_id:p" for a placeholder p of R.mapping, every
\* other entry (of another session, even under the same placeholder name) is
\* still there with its value, and once the results owning all entries have
\* been cleared the store is empty.
C5_SessionScopedCleanup ==
    /\ \A k \in clearedSince : k \notin DOMAIN store
    /\ \A k \in DOMAIN base \ clearedSince : k \in DOMAIN store /\ store[k] = base[k]
    /\ DOMAIN base \subseteq clearedSince => store = EmptyMap

\* a result with an entry was cleared, its key left the store, and another
\* session's entry under the same placeholder name is still stored
C5_Witness ==
    /\ last.op = "clear_session_mappings"
    /\ \E p \in DOMAIN last.result.mapping, sid \in PipeSessionIds :
          /\ sid # last.result.session_id
          /\ SessionKey(last.result.session_id, p) \in DOMAIN base
          /\ SessionKey(last.result.session_id, p) \notin DOMAIN store
          /\ SessionKey(sid, p) \in DOMAIN store

\* C1 (round trip): restore_response(sanitize_prompt(T).sanitized_text,
\* sanitize_prompt(T)) returns exactly T, for every text T and every list of
\* non-overlapping spans the detector returns for it.
C1_RoundTrip ==
    last.op = "sanitize_prompt" =>
        /\ last.raised = "none"
        /\ restore_response(last.ret[1].sanitized_text, last.ret[1], FALSE, store).ret
               = last.prompt

\* C9 (no-PII pass-through): when the detector returns no entities,
\* sanitize_prompt does not raise and returns the text unchanged with an empty
\* mapping, and the store is as it was.
C9_NoPiiPassThrough ==
    (last.op = "sanitize_prompt" /\ last.entities = <<>>) =>
        /\ last.raised = "none"
        /\ last.ret[1].sanitized_text = last.prompt
        /\ last.ret[1].mapping = EmptyMap
        /\ store = base

\* the number of entities detected in a batch
RECURSIVE TotalEntities(_)
TotalEntities(detected) ==
    IF detected = <<>> THEN 0 ELSE Len(Head(detected)) + TotalEntities(Tail(detected))

\* C8 (shared numbering across a batch): sanitize_messages gives all messages
\* one session id and one label-counter map, so no placeholder name is
\* produced twice and the combined mapping holds one entry per entity of every
\* message.
C8_BatchSharedNumbering ==
    last.op = "sanitize_messages" =>
        /\ last.raised = "none"
        /\ Cardinality(DOMAIN last.ret[1].mapping) = TotalEntities(last.detected)
        /\ Len(last.ret[1].sanitized_messages) = Len(last.messages)

\* C4 (session isolation): two sanitize_prompt calls without a session id
\* that produce the same placeholder names each return a result, and
\* restoring with either result yields that result's own values.  Stated for
\* the call that has just returned and any result the caller holds from an
\* earlier call.
C4_SessionIsolation ==
    (last.op = "sanitize_prompt" /\ last.session_id = <<>>) =>
        /\ last.raised = "none"
        /\ \A other \in CallerResults :
              \A p \in DOMAIN other.mapping \cap DOMAIN last.ret[1].mapping :
                  /\ restore_response(p, last.ret[1], FALSE, store).ret
                         = decrypt(last.ret[1].mapping[p])
                  /\ restore_response(p, other, FALSE, store).ret
                         = decrypt(other.mapping[p])

\* s occurs in text
Occurs(s, text) == FindFrom(text, s, 1) # 0

\* C12 (decryption failure is contained): when decrypting a mapping entry
\* fails during restore_response the call does not raise, that placeholder
\* stays in the output as its own token, and every entry that decrypts is
\* still replaced by its original value.
C12_DecryptFailureContained ==
    last.op = "restore_response" =>
        /\ last.raised = "none"
        /\ \A p \in DOMAIN last.result.mapping :
              Occurs(p, last.text) =>
                  IF DecryptRaises(last.result.mapping[p])
                  THEN Occurs(p, last.ret)
                  ELSE /\ ~Occurs(p, last.ret)
                       /\ Occurs(decrypt(last.result.mapping[p]), last.ret)

\* a text with two placeholders was restored with a mapping in which one
\* entry fails to decrypt and the other decrypts
C12_Witness ==
    /\ last.op = "restore_response"
    /\ \E p, q \in DOMAIN last.result.mapping :
          /\ Occurs(p, last.text) /\ Occurs(q, last.text)
          /\ DecryptRaises(last.result.mapping[p])
          /\ ~DecryptRaises(last.result.mapping[q])
          /\ Occurs(p, last.ret)
          /\ Occurs(decrypt(last.result.mapping[q]), last.ret)

\* C13 (store write on sanitize): after sanitize_prompt returns R the store
\* holds R.mapping[p] under "R.session_id:p" for every placeholder p of R, no
\* bare placeholder is a key, and for a freshly generated session the store
\* has grown by exactly the size of R.mapping.
C13_StoreWriteOnSanitize ==
    last.op = "sanitize_prompt" =>
        /\ last.raised = "none"
        /\ \A p \in DOMAIN last.ret[1].mapping :
              /\ SessionKey(last.ret[1].session_id, p) \in DOMAIN store
              /\ store[SessionKey(last.ret[1].session_id, p)] = last.ret[1].mapping[p]
              /\ p \notin DOMAIN store
        /\ last.session_id = <<>> =>
              MappingStoreLen(store)
                  = last.len_before + Cardinality(DOMAIN last.ret[1].mapping)

\* the part of C14 that concerns restore_response alone: with
\* clear_mappings=True it returns the text it returns without, and the store
\* holds none of the result's session keys afterwards
RestoreClearsSession ==
    (last.op = "restore_response" /\ last.clear_mappings) =>
        /\ last.ret = restore_response(last.text, last.result, FALSE, store).ret
        /\ KeysOf(last.result) \cap DOMAIN store = {}

\* C14 (restore with cleanup): restore_response with clear_mappings=True
\* returns the same text as without and leaves none of R's session keys in
\* the store, so that a sanitize followed by such a restore returns the store
\* to the size it had before the sanitize.
C14_RestoreWithCleanup ==
    /\ RestoreClearsSession
    /\ last.op = "sanitize_prompt" =>
          /\ last.raised = "none"
          /\ MappingStoreLen(restore_response(last.ret[1].sanitized_text, last.ret[1],
                                              TRUE, store).store)
                 = last.len_before

\* the wrapped function was handed the caller's arguments and its response
\* was returned as it came, with no detector call and no log entry
HandedThrough(call) ==
    /\ call.raised = "none"
    /\ call.calls = <<call.kwargs>>
    /\ call.ret = <<Respond(call.func, call.kwargs)>>
    /\ call.events = <<"call">>

\* the arguments carry a text the decorator sanitizes
CarriesText(kwargs) == kwargs \in ResponsesKwargsText \cup ChatKwargsText

\* C15 (PII values do not reach the wrapped call): a protected call whose
\* input holds entities calls the wrapped function with the sanitized text,
\* in which no entity's value occurs.
C15_NoPiiForwarded ==
    (/\ last.op \in Wrappers
     /\ enable_pii_protection
     /\ model_installed
     /\ last.entities # <<>>) =>
        /\ last.raised = "none"
        /\ Len(last.calls) = 1
        /\ \A i \in DOMAIN last.entities :
              ~Occurs(last.entities[i].text, ForwardedText(last.calls[1]))

\* a call made while enable_pii_protection is false hands its arguments
\* through and leaves the store alone; a call made while it is true and that
\* carries text starts with the detector
DisabledStep ==
    last'.op \in Wrappers =>
        IF ~enable_pii_protection
        THEN HandedThrough(last') /\ store' = store
        ELSE CarriesText(last'.kwargs) => last'.events[1] = "detect"

\* C16 (disabled protection is a pass-through, decided per call): whenever
\* the setting is false at the time of a call, both decorators call the
\* wrapped function with the unmodified arguments, return its response
\* unmodified, run no detection and write nothing to the store; the setting
\* is read again on every call, so a change takes effect on the next call.
C16_DisabledPassThrough == [][DisabledStep]_vars

\* after the setting was switched off, a call whose text holds an entity was
\* handed through over a store that holds an entry
C16_Witness ==
    /\ last.op \in Wrappers
    /\ ~enable_pii_protection
    /\ last.entities # <<>>
    /\ last.calls = <<last.kwargs>>
    /\ store # EmptyMap

\* the arguments hold no input string (Responses) or no messages list (chat)
Malformed(op, kwargs) ==
    IF op = "pii_protect_openai_responses"
    THEN kwargs \in ResponsesKwargsNoText
    ELSE kwargs.messages.kind # "list"

MalformedStep ==
    (last'.op \in Wrappers /\ enable_pii_protection /\ Malformed(last'.op, last'.kwargs)) =>
        HandedThrough(last') /\ store' = store

\* C17 (malformed input is a no-op path): when the arguments hold no
\* extractable input string or no messages list, no pipeline step runs, the
\* wrapped function is called with the unmodified arguments, its response is
\* returned unmodified, nothing is raised and the store is unchanged.
C17_MalformedInputNoOp == [][MalformedStep]_vars

\* with protection enabled, a Responses call whose input is a list without a
\* leading string was handed through
C17_Witness ==
    /\ last.op = "pii_protect_openai_responses"
    /\ enable_pii_protection
    /\ last.kwargs.input.kind = "list"
    /\ last.kwargs \in ResponsesKwargsNoText
    /\ last.calls = <<last.kwargs>>
    /\ last.raised = "none"

ModelMissingStep ==
    (last'.op = "sanitize_prompt" /\ ~model_installed) =>
        /\ last'.raised = "RuntimeError"
        /\ last'.message = ModelNotFoundMessage
        /\ last'.ret = <<>>
        /\ store' = store

\* C18 (detector unavailability is fatal and leaves no trace): when the
\* recognizer model cannot be loaded, sanitize_prompt raises an error that
\* carries the remediation message, returns no result, and leaves the store
\* as it was.
C18_ModelMissingIsFatal == [][ModelMissingStep]_vars

\* sanitize_prompt was called for a text with an entity while the model is
\* missing and the store holds an entry; the call raised
C18_Witness ==
    /\ last.op = "sanitize_prompt"
    /\ ~model_installed
    /\ last.entities # <<>>
    /\ last.raised = "RuntimeError"
    /\ store # EmptyMap

\* the log entries and the wrapped call among the events of a call, in order
Lifecycle(events) == SelectSeq(events, LAMBDA e : e # "detect")

\* C19 (verbose lifecycle ordering): a protected Responses call that
\* sanitizes an input emits, when verbose is in effect, exactly the entries
\* sanitize_prompt and detected_entities before the wrapped function is
\* called and llm_response_placeholders after it, and no entry otherwise.
C19_VerboseLifecycle ==
    (/\ last.op = "pii_protect_openai_responses"
     /\ enable_pii_protection
     /\ model_installed
     /\ last.kwargs \in ResponsesKwargsText) =>
        Lifecycle(last.events) =
            IF (IF last.verbose_arg # <<>> THEN last.verbose_arg[1] ELSE verbose)
            THEN <<"sanitize_prompt", "detected_entities", "call",
                   "llm_response_placeholders">>
            ELSE <<"call">>

KeyMissStep ==
    /\ last'.op = "get" =>
          /\ last'.raised = "none"
          /\ store' = store
          /\ last'.ret = IF last'.key \in DOMAIN store THEN <<store[last'.key]>> ELSE <<>>
    /\ last'.op = "remove" =>
          /\ last'.raised = "none"
          /\ IF last'.key \in DOMAIN store
             THEN /\ last'.ret = TRUE
                  /\ DOMAIN store' = DOMAIN store \ {last'.key}
                  /\ \A k \in DOMAIN store' : store'[k] = store[k]
             ELSE /\ last'.ret = FALSE
                  /\ store' = store

\* C20 (store key-miss semantics): get of an absent key returns the absent
\* sentinel and remove of an absent key returns false, neither raises and
\* neither changes the store; remove of a present key returns true and
\* deletes exactly that key, leaving every other entry as it was.
C20_KeyMissSemantics == [][KeyMissStep]_vars

\* a present key was removed from a store that still holds another entry
C20_Witness ==
    /\ last.op = "remove"
    /\ last.ret = TRUE
    /\ last.key \notin DOMAIN store
    /\ store # EmptyMap

\* buf ends with a complete placeholder token
EndsWithPlaceholder(buf) ==
    \E i \in 1..Len(buf) : PlaceholderMatchEnd(buf, i) = Len(buf) + 1

\* s matches @@[A-Z_0-9]* as a whole
IsOpeningMarker(s) == IsAtAt(s, 1) /\ 2 + BodyRun(s, 3) = Len(s)

SafeCutStep ==
    sPos' > sPos =>
        LET buf == buffer \o SubSeq(sFull, sPos + 1, sPos') IN
        /\ EndsWithPlaceholder(buf) =>
              /\ buffer' = <<>>
              /\ outs'[Len(outs')]
                     = Payload(restore_from_placeholders(buf, DecryptMapping(sMapping)))
        /\ buffer' # <<>> => IsOpeningMarker(buffer') /\ ~EndsWithPlaceholder(buf)

\* C21 (safe cut at a complete placeholder): when the buffer, after a chunk
\* was appended, ends with a complete placeholder token, the whole buffer is
\* restored and emitted with that chunk and nothing is retained; text is held
\* back only for a dangling opening marker that is not a complete placeholder.
C21_SafeCutAtCompleteToken == [][SafeCutStep]_vars

\* s is a suffix of text
IsSuffix(s, text) ==
    Len(s) <= Len(text) /\ SubSeq(text, Len(text) - Len(s) + 1, Len(text)) = s

Flushed ==
    /\ ChunkTexts(ins) = sFull
    /\ Len(outs) = Len(ins) + (IF buffer # <<>> THEN 1 ELSE 0)
    /\ buffer # <<>> =>
          outs[Len(outs)] = Payload(restore_from_placeholders(
                                        buffer, DecryptMapping(sMapping)))
    /\ (\A p \in DOMAIN sMapping : ~Occurs(p, sFull)) =>
          ChunkTexts(outs) = ChunkTexts(ins)

\* C25 (end-of-stream flush): for every finite input chunk sequence the
\* streaming restorer terminates, and if the buffer is not empty when the
\* input ends it emits one final chunk with the restored remainder, so that
\* every character of the input is emitted exactly once (with a mapping that
\* matches no token of the text, output text = input text).
C25_EndOfStreamFlush == <>sDone /\ [](sDone => Flushed)

\* the input ended with a marker in the buffer and the tail chunk carried it
C25_Witness ==
    /\ sDone
    /\ Len(ins) >= 2
    /\ Len(buffer) >= 3
    /\ Len(outs) = Len(ins) + 1
    /\ outs[Len(outs)] = Payload(buffer)

\* s is a prefix of text
IsPrefix(s, text) == Len(s) <= Len(text) /\ SubSeq(text, 1, Len(s)) = s

OrderStep ==
    /\ SubSeq(outs', 1, Len(outs)) = outs
    /\ Len(ins') > Len(ins) =>
          /\ Len(outs') = Len(outs) + 1
          /\ Len(outs') = Len(ins')
          /\ ins'[Len(ins')] \in {NoPayload, Payload(<<>>)} =>
                /\ outs'[Len(outs')] = ins'[Len(ins')]
                /\ buffer' = buffer
          /\ ins'[Len(ins')] \notin {NoPayload, Payload(<<>>)} =>
                Len(outs'[Len(outs')]) = 1
    /\ ins' = ins => Len(outs') <= Len(ins) + 1
    /\ sMapping = EmptyMap => IsPrefix(ChunkTexts(outs'), ChunkTexts(ins'))

\* C26 (chunk ordering and count): exactly one output chunk per input chunk,
\* in input order, followed by at most one tail chunk; a chunk without text
\* (absent or empty) is forwarded unchanged at its position and leaves the
\* buffer as it was; text emitted with a later chunk never precedes text
\* emitted with an earlier one.
C26_ChunkOrderAndCount == [][OrderStep]_vars

\* a chunk without text was forwarded between two chunks with text while a
\* marker was held in the buffer
C26_Witness ==
    /\ Len(ins) >= 3
    /\ Len(outs) = Len(ins)
    /\ \E k \in 2..(Len(ins) - 1) :
          /\ ins[k] = NoPayload
          /\ outs[k] = NoPayload
          /\ outs[k - 1] # NoPayload
    /\ buffer # <<>>

\* out is text from offset pos on, with the characters of each span of
\* entities (left to right) replaced by a key of mapping that stands for the
\* span's text, and every other character kept in order
RECURSIVE Fits(_, _, _, _, _)
Fits(out, text, pos, entities, mapping) ==
    IF entities = <<>> THEN out = SliceFrom(text, pos)
    ELSE LET e == Head(entities)
             gap == Slice(text, pos, e.start)
         IN  \E p \in DOMAIN mapping :
                /\ mapping[p] = e.text
                /\ IsPrefix(gap \o p, out)
                /\ Fits(SliceFrom(out, Len(gap) + Len(p)), text, e.end,
                        Tail(entities), mapping)

\* C24 (order-independent backward replacement): for every text and every
\* set of non-overlapping spans, replace_with_placeholders returns the same
\* sanitized text and mapping for every ordering of the entity list, and the
\* sanitized text is the original with exactly the characters of each span
\* [start, end) replaced by one placeholder, all other characters preserved
\* in order.
C24_OrderIndependentReplace ==
    cOut # <<>> =>
        /\ \A f \in Permutations(DOMAIN cEntities) :
              replace_with_placeholders(
                  cText, [i \in DOMAIN cEntities |-> cEntities[f[i]]]) = cOut[1]
        /\ Fits(cOut[1].text, cText, 0, SortByStartAsc(cEntities), cOut[1].mapping)

\* two spans given left to right, with a character outside both, were replaced
C24_Witness ==
    /\ cOut # <<>>
    /\ Len(cEntities) = 2
    /\ cEntities[1].start < cEntities[2].start
    /\ Len(cText) > SpanLen(cEntities[1]) + SpanLen(cEntities[2])

\* one simultaneous substitution over the tokens finditer finds in text from
\* 1-based index i on: each mapped token becomes its value at its position,
\* everything else is copied
RECURSIVE SubstituteAll(_, _, _)
SubstituteAll(text, i, mapping) ==
    IF i > Len(text) THEN <<>>
    ELSE LET e == PlaceholderMatchEnd(text, i) IN
         IF e = 0 THEN <<text[i]>> \o SubstituteAll(text, i + 1, mapping)
         ELSE LET token == SubSeq(text, i, e - 1) IN
              (IF token \in DOMAIN mapping THEN mapping[token] ELSE token)
                  \o SubstituteAll(text, e, mapping)

\* C22 (every occurrence is restored): restore_from_placeholders returns the
\* text in which each occurrence of each mapped token is replaced, at its own
\* position, by the mapped value (one simultaneous substitution over the
\* tokens found in the input), also when a token occurs several times and
\* when a mapped value has the shape of another mapped placeholder.
C22_EveryOccurrenceRestored ==
    rOut # <<>> => rOut[1] = SubstituteAll(rText, 1, rMapping)

\* the 1-based starts of the tokens finditer finds in text from index i on
RECURSIVE TokenStarts(_, _)
TokenStarts(text, i) ==
    IF i > Len(text) THEN {}
    ELSE LET e == PlaceholderMatchEnd(text, i) IN
         IF e = 0 THEN TokenStarts(text, i + 1) ELSE {i} \cup TokenStarts(text, e)

TokenAt(text, i) == SubSeq(text, i, PlaceholderMatchEnd(text, i) - 1)

\* C23 (unknown placeholders are preserved): every token matching
\* @@[A-Z_0-9]+@@ that is not a key of the mapping appears in the output
\* verbatim at its position (the place it has once the mapped tokens before
\* it are replaced), and a text without a mapped placeholder is returned
\* unchanged.
C23_UnknownTokensPreserved ==
    rOut # <<>> =>
        /\ \A i \in TokenStarts(rText, 1) :
              TokenAt(rText, i) \notin DOMAIN rMapping =>
                  LET at == Len(SubstituteAll(SubSeq(rText, 1, i - 1), 1, rMapping))
                  IN  SubSeq(rOut[1], at + 1, at + Len(TokenAt(rText, i)))
                          = TokenAt(rText, i)
        /\ (\A i \in TokenStarts(rText, 1) : TokenAt(rText, i) \notin DOMAIN rMapping)
              => rOut[1] = rText

ReadOnlyRestoreStep ==
    (last'.op = "restore_response" /\ ~last'.clear_mappings) =>
        /\ store' = store
        /\ base' = base
        /\ clearedSince' = clearedSince
        /\ last'.ret = restore_response(last'.text, last'.result, FALSE, EmptyMap).ret

\* C27 (restore is read-only): restore_response with clear_mappings=False
\* leaves the mapping store as it was, so that restoring any number of texts
\* with the same result, in any order, gives each text the output it gets
\* when restored alone on a pipeline whose store is empty.
C27_RestoreIsReadOnly == [][ReadOnlyRestoreStep]_vars

\* a text was restored without cleanup while the store held the result's
\* entries, and they are still there
C27_Witness ==
    /\ last.op = "restore_response"
    /\ ~last.clear_mappings
    /\ last.result.mapping # EmptyMap
    /\ KeysOf(last.result) \subseteq DOMAIN store
    /\ last.ret # last.text

\* C28 (store agrees with every live result): after any sequence of
\* sanitize_prompt calls (with or without a caller-supplied session id) and
\* clear_session_mappings calls, a call on a prompt with entities has returned
\* a result R, and the store holds R.mapping[p] under "R.session_id:p" for
\* every placeholder p of every result that was returned and not cleared.
\* Stated for the result of the call that has just returned, which no cleanup
\* has touched yet.
C28_StoreAgreesWithLiveResults ==
    (last.op = "sanitize_prompt" /\ last.entities # <<>>) =>
        /\ last.raised = "none"
        /\ last.ret # <<>>
        /\ \A key \in KeysOf(last.ret[1]) :
              /\ key \in DOMAIN store
              /\ \E p \in DOMAIN last.ret[1].mapping :
                    /\ key = SessionKey(last.ret[1].session_id, p)
                    /\ store[key] = last.ret[1].mapping[p]

\* C29 (restore does not depend on the store): the output of
\* restore_response(text, R) is determined by text and R.mapping alone,
\* whatever the mapping store holds, in particular after
\* clear_session_mappings(R) or MappingStore.clear() removed R's entries.
C29_RestoreIgnoresStore ==
    last.op = "restore_response" =>
        last.ret = restore_from_placeholders(last.text, DecryptMapping(last.result.mapping))

\* a text was restored to its values with a result whose entries had been
\* in the store and were cleared before the call
C29_Witness ==
    /\ last.op = "restore_response"
    /\ ~last.clear_mappings
    /\ last.result.mapping # EmptyMap
    /\ KeysOf(last.result) \subseteq DOMAIN base
    /\ KeysOf(last.result) \subseteq clearedSince
    /\ KeysOf(last.result) \cap DOMAIN store = {}
    /\ last.ret # last.text

====
